---- MODULE Spec2Model ----
(***************************************************************************)
(* A model of the two batch stages of the repository:                      *)
(*   src/count_percentile.py      parse_score_value, calculate_percentile, *)
(*                                convert_scores_to_percentiles            *)
(*   src/median_type_model_lang.py   read_xlsx                             *)
(*                                                                         *)
(* Text is a sequence of one-character strings.  A Python float is a       *)
(* record [k, m, e]: k = "fin" stands for the double nearest to m * 10^e   *)
(* (m without trailing zeros), k = "inf" for an infinity of sign m,        *)
(* k = "nan" for NaN, and k = "none" for Python's None.                    *)
(***************************************************************************)
EXTENDS Integers, Sequences, FiniteSets, TLC

\* ------------------------------------------------------------------------
\* Bounds of the model
\* ------------------------------------------------------------------------

\* longest text enumerated character by character for the parser
MaxLen == 3
\* longest leaderboard enumerated row by row
MaxRows == 3
\* leaderboard scores are 1..MaxScore
MaxScore == 3

\* ------------------------------------------------------------------------
\* Python values
\* ------------------------------------------------------------------------

None == [k |-> "none", m |-> 0, e |-> 0]
NaN == [k |-> "nan", m |-> 0, e |-> 0]
Inf(sign) == [k |-> "inf", m |-> sign, e |-> 0]

RECURSIVE Pow10(_)
Pow10(n) == IF n <= 0 THEN 1 ELSE 10 * Pow10(n - 1)

Abs(x) == IF x < 0 THEN -x ELSE x

\* number of decimal digits of |x| (0 has one digit)
RECURSIVE NumDigits(_)
NumDigits(x) == IF Abs(x) < 10 THEN 1 ELSE 1 + NumDigits(Abs(x) \div 10)

\* m * 10^e with the trailing zeros of m moved into e
RECURSIVE Normalize(_, _)
Normalize(m, e) ==
    IF m = 0 THEN [k |-> "fin", m |-> 0, e |-> 0]
    ELSE IF m % 10 = 0 THEN Normalize(m \div 10, e + 1)
    ELSE [k |-> "fin", m |-> m, e |-> e]

Fin(m, e) == Normalize(m, e)
IntF(n) == Normalize(n, 0)

\* the first nine significant digits of m, as a nine-digit number
Lead9(m) ==
    LET d == NumDigits(m)
    IN  IF d <= 9 THEN Abs(m) * Pow10(9 - d) ELSE Abs(m) \div Pow10(d - 9)

Sign(m) == IF m < 0 THEN -1 ELSE 1

\* The double a decimal m * 10^e rounds to: an infinity above the largest
\* double (1.7976931348623157e308), zero at or below half the smallest
\* denormal (2.4703282292062327e-324).
ToDouble(m, e) ==
    LET n == Normalize(m, e)
        mag == NumDigits(n.m) + n.e
    IN  IF n.m = 0 THEN n
        ELSE IF mag > 309 THEN Inf(Sign(m))
        ELSE IF mag = 309 /\
                (IF NumDigits(n.m) <= 9 THEN Lead9(n.m) > 179769313
                                        ELSE Abs(n.m) > 1797693134)
             THEN Inf(Sign(m))
        ELSE IF mag < -323 THEN Fin(0, 0)
        ELSE IF mag = -323 /\ Lead9(n.m) <= 247032822 THEN Fin(0, 0)
        ELSE n

\* a < b on floats; every comparison with NaN is false
FloatLess(a, b) ==
    IF a.k = "nan" \/ b.k = "nan" THEN FALSE
    ELSE IF a.k = "inf" THEN a.m < 0 /\ ~(b.k = "inf" /\ b.m < 0)
    ELSE IF b.k = "inf" THEN b.m > 0
    ELSE IF a.m = 0 THEN b.m > 0
    ELSE IF b.m = 0 THEN a.m < 0
    ELSE IF Sign(a.m) # Sign(b.m) THEN a.m < 0
    ELSE LET ma == NumDigits(a.m) + a.e
             mb == NumDigits(b.m) + b.e
             lo == IF a.e < b.e THEN a.e ELSE b.e
         IN  IF ma # mb THEN (IF a.m > 0 THEN ma < mb ELSE ma > mb)
             ELSE a.m * Pow10(a.e - lo) < b.m * Pow10(b.e - lo)

FloatLeq(a, b) ==
    IF a.k = "nan" \/ b.k = "nan" THEN FALSE
    ELSE ~FloatLess(b, a)

IsFinite(f) == f.k = "fin"

\* ------------------------------------------------------------------------
\* Text
\* ------------------------------------------------------------------------

Digits == <<"0", "1", "2", "3", "4", "5", "6", "7", "8", "9">>
UpperCase == <<"A", "B", "C", "D", "E", "F", "G", "H", "I", "J", "K", "L", "M",
               "N", "O", "P", "Q", "R", "S", "T", "U", "V", "W", "X", "Y", "Z">>
LowerCase == <<"a", "b", "c", "d", "e", "f", "g", "h", "i", "j", "k", "l", "m",
               "n", "o", "p", "q", "r", "s", "t", "u", "v", "w", "x", "y", "z">>
WhiteSpace == {" ", "\t", "\n"}

IsDigit(c) == \E i \in 1..10 : Digits[i] = c
DigitVal(c) == (CHOOSE i \in 1..10 : Digits[i] = c) - 1

\* str.lower(), one character
LowerChar(c) ==
    IF \E i \in 1..26 : UpperCase[i] = c
    THEN LowerCase[CHOOSE i \in 1..26 : UpperCase[i] = c]
    ELSE c

\* str.lower()
Lower(s) == [i \in 1..Len(s) |-> LowerChar(s[i])]

\* str.strip()
RECURSIVE LStrip(_)
LStrip(s) == IF s # <<>> /\ Head(s) \in WhiteSpace THEN LStrip(Tail(s)) ELSE s
RECURSIVE RStrip(_)
RStrip(s) ==
    IF s # <<>> /\ s[Len(s)] \in WhiteSpace
    THEN RStrip(SubSeq(s, 1, Len(s) - 1)) ELSE s
Strip(s) == RStrip(LStrip(s))

\* str.startswith(p)
StartsWith(s, p) == Len(s) >= Len(p) /\ SubSeq(s, 1, Len(p)) = p

\* c in s
Contains(s, c) == \E i \in 1..Len(s) : s[i] = c

\* index of the first c in s (s contains c)
IndexOf(s, c) == CHOOSE i \in 1..Len(s) : s[i] = c /\ \A j \in 1..(i - 1) : s[j] # c

\* s.split(c)[0]
SplitFirst(s, c) == IF Contains(s, c) THEN SubSeq(s, 1, IndexOf(s, c) - 1) ELSE s

\* ------------------------------------------------------------------------
\* float(text) and str(number)
\* ------------------------------------------------------------------------

ValueError == [k |-> "error", m |-> 0, e |-> 0]

\* a run of digits, single underscores allowed between digits
DigitRun(s) ==
    /\ s # <<>>
    /\ IsDigit(s[1]) /\ IsDigit(s[Len(s)])
    /\ \A i \in 1..Len(s) : IsDigit(s[i]) \/ s[i] = "_"
    /\ \A i \in 1..(Len(s) - 1) : ~(s[i] = "_" /\ s[i + 1] = "_")

RECURSIVE DigitRunValue(_)
DigitRunValue(s) ==
    IF s = <<>> THEN 0
    ELSE IF s[Len(s)] = "_" THEN DigitRunValue(SubSeq(s, 1, Len(s) - 1))
    ELSE 10 * DigitRunValue(SubSeq(s, 1, Len(s) - 1)) + DigitVal(s[Len(s)])

\* the digits of s, underscores left out
NoUnderscore(s) == SelectSeq(s, LAMBDA c : c # "_")

HasSign(s) == s # <<>> /\ s[1] \in {"+", "-"}
SignOf(s) == IF s # <<>> /\ s[1] = "-" THEN -1 ELSE 1
Unsigned(s) == IF HasSign(s) THEN Tail(s) ELSE s

\* float(text): surrounding whitespace is ignored; a sign; then inf,
\* infinity or nan in any case, or digits with an optional fraction and an
\* optional exponent.  Anything else raises ValueError.
PyFloat(text) ==
    LET t == Strip(text)
        sg == SignOf(t)
        body == Lower(Unsigned(t))
        hasExp == Contains(body, "e")
        mant == IF hasExp THEN SubSeq(body, 1, IndexOf(body, "e") - 1) ELSE body
        expo == IF hasExp THEN SubSeq(body, IndexOf(body, "e") + 1, Len(body)) ELSE <<>>
        hasDot == Contains(mant, ".")
        ip == IF hasDot THEN SubSeq(mant, 1, IndexOf(mant, ".") - 1) ELSE mant
        fp == IF hasDot THEN SubSeq(mant, IndexOf(mant, ".") + 1, Len(mant)) ELSE <<>>
        mantOk == /\ ip = <<>> \/ DigitRun(ip)
                  /\ fp = <<>> \/ DigitRun(fp)
                  /\ ip # <<>> \/ fp # <<>>
        expOk == ~hasExp \/ DigitRun(Unsigned(expo))
        ev == IF hasExp THEN SignOf(expo) * DigitRunValue(Unsigned(expo)) ELSE 0
        fd == NoUnderscore(fp)
    IN  IF body = <<"i", "n", "f">> \/ body = <<"i", "n", "f", "i", "n", "i", "t", "y">>
        THEN Inf(sg)
        ELSE IF body = <<"n", "a", "n">> THEN NaN
        ELSE IF mantOk /\ expOk
        THEN ToDouble(sg * DigitRunValue(NoUnderscore(ip) \o fd), ev - Len(fd))
        ELSE ValueError

\* the decimal digits of n >= 0
RECURSIVE NatToStr(_)
NatToStr(n) ==
    IF n < 10 THEN <<Digits[n + 1]>>
    ELSE NatToStr(n \div 10) \o <<Digits[(n % 10) + 1]>>

\* str(n) of an int
IntToStr(n) == IF n < 0 THEN <<"-">> \o NatToStr(-n) ELSE NatToStr(n)

RECURSIVE Zeros(_)
Zeros(n) == IF n <= 0 THEN <<>> ELSE <<"0">> \o Zeros(n - 1)

\* str(x) of a finite float in the range repr prints without an exponent
FloatToStr(f) ==
    LET ds == NatToStr(Abs(f.m))
        sgn == IF f.m < 0 THEN <<"-">> ELSE <<>>
        pad == IF Len(ds) <= -f.e THEN Zeros(1 - f.e - Len(ds)) \o ds ELSE ds
    IN  IF f.e >= 0 THEN sgn \o ds \o Zeros(f.e) \o <<".", "0">>
        ELSE sgn \o SubSeq(pad, 1, Len(pad) + f.e) \o <<".">>
                 \o SubSeq(pad, Len(pad) + f.e + 1, Len(pad))

\* ------------------------------------------------------------------------
\* Spreadsheet cells
\* ------------------------------------------------------------------------

\* a blank cell (pandas reads it as NaN)
Blank == [t |-> "nan", s |-> <<>>, f |-> None, d |-> 0]
StrCell(s) == [t |-> "str", s |-> s, f |-> None, d |-> 0]
IntCell(n) == [t |-> "int", s |-> <<>>, f |-> IntF(n), d |-> 0]
FloatCell(f) == [t |-> "float", s |-> <<>>, f |-> f, d |-> 0]
\* a date cell (pd.Timestamp), d = yyyymmdd
DateCell(d) == [t |-> "ts", s |-> <<>>, f |-> None, d |-> d]

\* pd.isna(cell)
IsNa(cell) == cell.t = "nan"

\* str(cell)
PyStr(cell) ==
    IF cell.t = "str" THEN cell.s
    ELSE IF cell.t = "int" THEN IntToStr(cell.f.m * Pow10(cell.f.e))
    ELSE IF cell.t = "float" THEN FloatToStr(cell.f)
    ELSE <<"n", "a", "n">>

\* ------------------------------------------------------------------------
\* count_percentile.py: is_url, parse_score_value
\* ------------------------------------------------------------------------

UrlPrefixes ==
    { <<"h", "t", "t", "p", ":", "/", "/">>,
      <<"h", "t", "t", "p", "s", ":", "/", "/">>,
      <<"w", "w", "w", ".">> }

is_url(text) == \E p \in UrlPrefixes : StartsWith(text, p)

NullSentinels ==
    { <<>>, <<"n", "/", "a">>, <<"n", "a">>, <<"n", "u", "l", "l">>,
      <<"n", "o", "n", "e">> }

\* try: return float(text) except ValueError: return None
TryFloat(text) ==
    LET r == PyFloat(text) IN IF r = ValueError THEN None ELSE r

\* parse_score_value without the comma rule: the whole text is converted
parse_score_value_NoSplit(score_text) ==
    LET score_str == Strip(PyStr(score_text))
    IN  IF IsNa(score_text) THEN None
        ELSE IF is_url(score_str) THEN None
        ELSE IF score_str = <<>> \/ Lower(score_str) \in NullSentinels THEN None
        ELSE TryFloat(score_str)

parse_score_value(score_text) ==
    LET score_str == Strip(PyStr(score_text))
    IN  IF IsNa(score_text) THEN None
        ELSE IF is_url(score_str) THEN None
        ELSE IF score_str = <<>> \/ Lower(score_str) \in NullSentinels THEN None
        ELSE IF Contains(score_str, ",")
             THEN TryFloat(Strip(SplitFirst(score_str, ",")))
        ELSE TryFloat(score_str)

\* ------------------------------------------------------------------------
\* count_percentile.py: calculate_percentile
\* ------------------------------------------------------------------------

\* A leaderboard is a sequence of rows [Rank |-> int, Score |-> float], in
\* the order of the file; a Score that is not numeric is NaN.

\* the value of calculate_percentile: an int, or None
NoPercentile == [ok |-> FALSE, v |-> 0]
Percentile(v) == [ok |-> TRUE, v |-> v]

\* head(10), tail(10)
GroupSize == 10

\* insert a row into a sequence sorted by Rank, after the rows of equal Rank
RECURSIVE InsertByRank(_, _)
InsertByRank(sorted, row) ==
    IF sorted = <<>> THEN <<row>>
    ELSE IF sorted[Len(sorted)].Rank <= row.Rank THEN Append(sorted, row)
    ELSE Append(InsertByRank(SubSeq(sorted, 1, Len(sorted) - 1), row),
                sorted[Len(sorted)])

\* leaderboard_df.sort_values('Rank')
RECURSIVE SortValues(_)
SortValues(df) ==
    IF df = <<>> THEN <<>>
    ELSE InsertByRank(SortValues(SubSeq(df, 1, Len(df) - 1)), df[Len(df)])

\* df['Score'] as a sequence
ScoreColumn(df) == [i \in 1..Len(df) |-> df[i].Score]

\* Series.dropna()
DropNa(scores) == SelectSeq(scores, LAMBDA f : f.k # "nan")

\* Series.head(n), Series.tail(n)
HeadRows(seq, n) == SubSeq(seq, 1, IF Len(seq) < n THEN Len(seq) ELSE n)
TailRows(seq, n) == SubSeq(seq, IF Len(seq) < n THEN 1 ELSE Len(seq) - n + 1, Len(seq))

\* the integer a whole-valued float stands for
Whole(f) == f.m * Pow10(f.e)

RECURSIVE SumScores(_)
SumScores(scores) ==
    IF scores = <<>> THEN 0 ELSE Whole(Head(scores)) + SumScores(Tail(scores))

\* a.mean() > b.mean(), both non-empty
MeanGreater(a, b) == SumScores(a) * Len(b) > SumScores(b) * Len(a)

\* HigherIsBetter with >= for >: equal means select higher-is-better
HigherIsBetter_GreaterEqual(leaderboard_df) ==
    LET leaderboard_sorted == SortValues(leaderboard_df)
        first_scores == DropNa(HeadRows(ScoreColumn(leaderboard_sorted), GroupSize))
        last_scores == DropNa(TailRows(ScoreColumn(leaderboard_sorted), GroupSize))
    IN  IF Len(first_scores) > 0 /\ Len(last_scores) > 0
        THEN ~MeanGreater(last_scores, first_scores)
        ELSE TRUE

\* higher_is_better of calculate_percentile (line 256)
HigherIsBetter(leaderboard_df) ==
    LET leaderboard_sorted == SortValues(leaderboard_df)
        first_scores == DropNa(HeadRows(ScoreColumn(leaderboard_sorted), GroupSize))
        last_scores == DropNa(TailRows(ScoreColumn(leaderboard_sorted), GroupSize))
    IN  IF Len(first_scores) > 0 /\ Len(last_scores) > 0
        THEN MeanGreater(first_scores, last_scores)
        ELSE TRUE

\* number of entries of scores that satisfy Test
CountIf(scores, Test(_)) == Len(SelectSeq(scores, Test))

\* scipy.stats.percentileofscore(scores, score, kind='rank'), a fraction
\* num / den of a finite value: (left + right + (left < right)) * 50 / n
RankPercentNum(scores, score) ==
    LET left == CountIf(scores, LAMBDA a : FloatLess(a, score))
        right == CountIf(scores, LAMBDA a : FloatLeq(a, score))
    IN  (left + right + (IF left < right THEN 1 ELSE 0)) * 50

\* What percentileofscore returns for a NaN score depends on the scipy that
\* is installed: NaN is propagated, or (before nan_policy existed) the two
\* counts are both 0 and the value is 0.0.
NanModes == {"propagate", "legacy"}

\* round(num / den), den > 0: Python rounds a half to the even neighbour
RoundHalfEven(num, den) ==
    LET q == num \div den
        r == num % den
    IN  IF 2 * r < den THEN q
        ELSE IF 2 * r > den THEN q + 1
        ELSE IF q % 2 = 0 THEN q ELSE q + 1

Max(a, b) == IF a > b THEN a ELSE b
Min(a, b) == IF a < b THEN a ELSE b

\* max(1, min(100, result))
Clamp(result) == Max(1, Min(100, result))

\* lines 261-272 and 275 for a score that is not NaN: round(percentile)
RoundedPercentile(higher_is_better, scores, our_score) ==
    LET n == Len(scores)
        num == RankPercentNum(scores, our_score)
    IN  IF higher_is_better
        THEN RoundHalfEven(Max(0, num - n), n)
        ELSE RoundHalfEven(100 * n - num, n)

calculate_percentile(our_score, leaderboard_df, nan_mode) ==
    LET scores == DropNa(ScoreColumn(leaderboard_df))
        higher_is_better == HigherIsBetter(leaderboard_df)
    IN  IF Len(scores) = 0 THEN NoPercentile
        ELSE IF our_score.k = "none" THEN NoPercentile
        ELSE IF our_score.k = "nan" /\ nan_mode = "propagate"
             \* max(0, nan) is 0; round(nan) raises ValueError, caught at 282
             THEN IF higher_is_better THEN Percentile(Clamp(0)) ELSE NoPercentile
        ELSE Percentile(Clamp(RoundedPercentile(higher_is_better, scores, our_score)))

\* ------------------------------------------------------------------------
\* State
\* ------------------------------------------------------------------------

VARIABLES
    \* calculate_percentile: its arguments, the scipy behaviour, the control
    \* point of the caller, the value returned and the direction it used
    leaderboard_df, our_score, nan_mode, ppc, percentile, direction,
    \* parse_score_value: its argument, the control point, the value returned
    score_text, spc, parsed,
    \* convert_scores_to_percentiles: the sheet read, the loaded leaderboards,
    \* the copy being updated, the row and column indexes, the update counter, the lines
    \* printed (not-found warnings, count of 'Skipped value' lines), the
    \* control point and the sheet written
    df, leaderboards, result_df, idx, col_idx, updates_count, not_found_log,
    skipped_log, cpc, new_ws,
    \* read_xlsx: the table read, the records appended so far, the position
    \* in model_groups, the column index and the control point
    xlsx, result_data, group, column, apc

pctVars == <<leaderboard_df, our_score, nan_mode, ppc, percentile, direction>>
parseVars == <<score_text, spc, parsed>>
sweepVars == <<df, leaderboards, result_df, idx, col_idx, updates_count,
               not_found_log, skipped_log, cpc, new_ws>>

aggVars == <<xlsx, result_data, group, column, apc>>

vars == <<pctVars, parseVars, sweepVars, aggVars>>

\* the variables of a stage that is not running
PctIdle ==
    /\ leaderboard_df = <<>> /\ our_score = None /\ ppc = "off"
    /\ percentile = NoPercentile /\ direction = "unset"
ParseIdle == score_text = Blank /\ spc = "off" /\ parsed = None
SweepIdle ==
    /\ df = <<>> /\ leaderboards = <<>> /\ result_df = <<>> /\ idx = 0
    /\ col_idx = 0
    /\ updates_count = 0 /\ not_found_log = <<>> /\ skipped_log = 0
    /\ cpc = "off" /\ new_ws = <<>>
AggIdle ==
    /\ xlsx = <<>> /\ result_data = <<>> /\ group = 0 /\ column = 0
    /\ apc = "off"

\* ------------------------------------------------------------------------
\* Calls of calculate_percentile
\* ------------------------------------------------------------------------

\* the scores of a leaderboard file: whole numbers, or not numeric
ScoreVals == {IntF(v) : v \in 1..MaxScore} \cup {NaN}

\* the scores checked against a leaderboard: every value the parser returns
OurScores ==
    {IntF(v) : v \in 0..(MaxScore + 1)} \cup {Fin(15, -1), NaN, Inf(1), Inf(-1)}

RECURSIVE SeqsUpTo(_, _)
SeqsUpTo(S, n) ==
    IF n = 0 THEN {<<>>}
    ELSE LET shorter == SeqsUpTo(S, n - 1)
         IN  shorter \cup {Append(q, x) : q \in {r \in shorter : Len(r) = n - 1}, x \in S}

\* n copies of x
Run(n, x) == [i \in 1..n |-> x]

\* lengths of the runs of equal scores of the long leaderboards
RunLens == {0, 1, GroupSize}
MidLens == {0, 1}

\* score columns in rank order: every short one, and long ones made of
\* three runs (best ranks, middle, worst ranks)
RankedScores ==
    SeqsUpTo(ScoreVals, MaxRows) \cup
    { Run(a, x) \o Run(b, y) \o Run(c, z) :
        a \in RunLens, b \in MidLens, c \in RunLens,
        x \in ScoreVals, y \in ScoreVals, z \in ScoreVals }

\* the rows of a leaderboard file whose ranks are 1..n, best rank first or
\* worst rank first
FileRows(ranked, order) ==
    LET n == Len(ranked)
    IN  [i \in 1..n |->
            LET r == IF order = "asc" THEN i ELSE n + 1 - i
            IN  [Rank |-> r, Score |-> ranked[r]]]

InitPct ==
    /\ leaderboard_df \in {FileRows(q, o) : q \in RankedScores, o \in {"asc", "desc"}}
    /\ nan_mode \in NanModes
    /\ our_score = None
    /\ ppc = "idle"
    /\ percentile = NoPercentile
    /\ direction = "unset"
    /\ ParseIdle /\ SweepIdle /\ AggIdle

\* percentile = calculate_percentile(score, leaderboards[...]['df'], total_teams)
Call(score) ==
    /\ ppc = "idle"
    /\ our_score' = score
    /\ percentile' = calculate_percentile(score, leaderboard_df, nan_mode)
    /\ direction' =
         IF Len(DropNa(ScoreColumn(leaderboard_df))) = 0 THEN direction
         ELSE IF HigherIsBetter(leaderboard_df) THEN "higher" ELSE "lower"
    /\ ppc' = "returned"
    /\ UNCHANGED <<leaderboard_df, nan_mode, parseVars, sweepVars, aggVars>>

\* the caller takes the value; the next cell is checked against the same
\* leaderboard
Return ==
    /\ ppc = "returned"
    /\ ppc' = "idle"
    /\ our_score' = None
    /\ percentile' = NoPercentile
    /\ UNCHANGED <<leaderboard_df, nan_mode, direction, parseVars, sweepVars, aggVars>>

NextPct == (\E score \in OurScores : Call(score)) \/ Return

SpecPct == InitPct /\ [][NextPct]_vars

\* ------------------------------------------------------------------------
\* Calls of parse_score_value
\* ------------------------------------------------------------------------

\* the characters of the texts enumerated character by character
ParseAlphabet == {"1", "5", ".", ",", "-", "e", "_", " ", "n", "a", "N"}

\* str.upper(), one character
UpperChar(c) ==
    IF \E i \in 1..26 : LowerCase[i] = c
    THEN UpperCase[CHOOSE i \in 1..26 : LowerCase[i] = c]
    ELSE c

\* every spelling of text in upper and lower case
RECURSIVE CaseVariants(_)
CaseVariants(text) ==
    IF text = <<>> THEN {<<>>}
    ELSE { <<c>> \o rest : c \in {Head(text), UpperChar(Head(text))},
                            rest \in CaseVariants(Tail(text)) }

SampleTexts ==
    { <<"0", ".", "8", "5">>, <<"a", "b", "c">>, <<"9", "5">>,
      <<"n", "a", "n">>, <<"N", "a", "N">>, <<"i", "n", "f">>,
      <<"-", "I", "n", "f">>, <<"i", "n", "f", "i", "n", "i", "t", "y">>,
      <<"1", "e", "9", "9", "9">>, <<"1", "e", "-", "9", "9", "9">>,
      <<"1", "_", "0", "0", "0">>, <<"1", "e", "3", "0", "8">>,
      <<"h", "t", "t", "p", ":", "/", "/", "1">>,
      <<"h", "t", "t", "p", "s", ":", "/", "/", "e", ".", "c">>,
      <<"w", "w", "w", ".", "5">>, <<"H", "T", "T", "P", ":", "/", "/", "1">>,
      <<"W", "w", "w", ".", "5">> }

Pads == { <<>>, <<" ">>, <<"\t", " ">> }
Suffixes ==
    { <<>>, <<",", " ", "i", "g", "n", "o", "r", "e", " ", "t", "h", "i", "s">>,
      <<",", "0", ".", "9", "0">>, <<" ", ",", ",">>, <<"x">> }

NullSentinelTexts == UNION {CaseVariants(text) : text \in NullSentinels}

\* the texts given to the parser
ScoreTexts ==
    SeqsUpTo(ParseAlphabet, MaxLen) \cup
    { l \o core \o r \o suffix :
        l \in Pads, core \in SampleTexts \cup NullSentinelTexts, r \in Pads,
        suffix \in Suffixes }

\* the cells given to the parser: text, numbers, a blank
ScoreCells ==
    {StrCell(t) : t \in ScoreTexts} \cup {IntCell(n) : n \in {0, 7, 100, -3}} \cup
    {FloatCell(f) : f \in {Fin(85, -2), Fin(95, 0), Fin(-5, -3)}} \cup {Blank}

InitParse ==
    /\ score_text \in ScoreCells
    /\ spc = "call"
    /\ parsed = None
    /\ nan_mode = "propagate"
    /\ PctIdle /\ SweepIdle /\ AggIdle

\* score = parse_score_value(score_raw)
Parse ==
    /\ spc = "call"
    /\ parsed' = parse_score_value(score_text)
    /\ spc' = "returned"
    /\ UNCHANGED <<score_text, pctVars, sweepVars, aggVars>>

NextParse == Parse

SpecParse == InitParse /\ [][NextParse]_vars

\* ------------------------------------------------------------------------
\* count_percentile.py: convert_scores_to_percentiles
\* ------------------------------------------------------------------------

\* A sheet is a function from row index (from 0) to a function from column
\* index (from 0) to a cell, as pandas reads it with header=None.

\* the sweep adds data rows up to this many
MaxDataRows == 2

\* start_col one column to the left (the comment of line 126 says 10)
start_col_shifted == 11 - 1

\* start_col (line 128)
start_col == 11
\* the last result column (line 129)
last_result_col == 88
\* the column of the competition (line 139)
competition_col == 4
\* the first data row (line 137)
first_data_row == 2
\* 'Skipped value' lines are printed while updates_count is below this (line 176)
skip_log_limit == 5

NumRows(sheet) == Cardinality(DOMAIN sheet)
NumCols(sheet) == IF NumRows(sheet) = 0 THEN 0 ELSE Cardinality(DOMAIN sheet[0])

\* end_col = min(88, len(df.columns) - 1)
end_col(sheet) == Min(last_result_col, NumCols(sheet) - 1)

\* digits of n, zero-padded on the left to width w
ZeroPad(n, w) == Zeros(w - Len(NatToStr(n))) \o NatToStr(n)

\* competition.strftime('%Y-%m-%d')
StrfTime(cell) ==
    ZeroPad(cell.d \div 10000, 4) \o <<"-">> \o ZeroPad((cell.d \div 100) % 100, 2)
        \o <<"-">> \o ZeroPad(cell.d % 100, 2)

\* competition_str (lines 145-152)
CompetitionStr(competition) ==
    IF competition.t = "ts" THEN StrfTime(competition) ELSE PyStr(competition)

\* A leaderboard file: [name, has_rank, has_score, rows], each row
\* [Rank, rank_na, Score]: rank_na for a missing rank, Score NaN for a score
\* that is not numeric.  The rows kept (lines 103-107):
LoadRows(rows) ==
    LET kept == SelectSeq(rows, LAMBDA r : ~r.rank_na /\ r.Score.k # "nan")
    IN  [i \in 1..Len(kept) |-> [Rank |-> kept[i].Rank, Score |-> kept[i].Score]]

\* the files that give a leaderboard (lines 93-113)
Loadable(file) == file.has_rank /\ file.has_score /\ Len(LoadRows(file.rows)) > 0

\* leaderboards after the loading loop (lines 83-122)
LoadLeaderboards(csv_files) ==
    [name \in {f.name : f \in {g \in csv_files : Loadable(g)}} |->
        LET file == CHOOSE f \in csv_files : f.name = name
        IN  [df |-> LoadRows(file.rows), total_teams |-> Len(LoadRows(file.rows))]]

\* the warning printed once in a run
WarnNotFound_OncePerRun(log, row, competition_str) ==
    IF log = <<>> THEN <<[row |-> row, competition |-> competition_str]>> ELSE log

\* the warning of line 156, added to the lines printed so far (row is the
\* row that caused it)
WarnNotFound(log, row, competition_str) ==
    Append(log, [row |-> row, competition |-> competition_str])

\* the leaderboard of the row being processed
RowBoard == leaderboards[CompetitionStr(df[idx][competition_col])].df

\* line 141: the row has no competition
SkipRowWithoutCompetition ==
    /\ cpc = "rows"
    /\ idx < NumRows(df)
    /\ IsNa(df[idx][competition_col])
    /\ idx' = idx + 1
    /\ UNCHANGED <<df, leaderboards, result_df, col_idx, updates_count,
                   not_found_log, skipped_log, cpc, new_ws, nan_mode>>
    /\ UNCHANGED <<leaderboard_df, our_score, ppc, percentile, direction, parseVars, aggVars>>

\* lines 155-157: no leaderboard is loaded for the row's competition
SkipRowWithoutLeaderboard ==
    /\ cpc = "rows"
    /\ idx < NumRows(df)
    /\ ~IsNa(df[idx][competition_col])
    /\ CompetitionStr(df[idx][competition_col]) \notin DOMAIN leaderboards
    /\ not_found_log' =
         WarnNotFound(not_found_log, idx, CompetitionStr(df[idx][competition_col]))
    /\ idx' = idx + 1
    /\ UNCHANGED <<df, leaderboards, result_df, col_idx, updates_count,
                   skipped_log, cpc, new_ws, nan_mode>>
    /\ UNCHANGED <<leaderboard_df, our_score, ppc, percentile, direction, parseVars, aggVars>>

\* lines 159-164: the row has a leaderboard; the loop over its result
\* columns starts
EnterRow ==
    /\ cpc = "rows"
    /\ idx < NumRows(df)
    /\ ~IsNa(df[idx][competition_col])
    /\ CompetitionStr(df[idx][competition_col]) \in DOMAIN leaderboards
    /\ col_idx' = start_col
    /\ cpc' = "cols"
    /\ UNCHANGED <<df, leaderboards, result_df, idx, updates_count, not_found_log,
                   skipped_log, new_ws, nan_mode>>
    /\ UNCHANGED <<leaderboard_df, our_score, ppc, percentile, direction, parseVars, aggVars>>

\* the loop of line 164 has a column left (line 165 does not break)
InColumns == cpc = "cols" /\ col_idx <= end_col(df) /\ col_idx < NumCols(df)

\* lines 174-178: the cell does not parse; it is logged when it is not blank
\* and updates_count is below the limit
SkipCell ==
    /\ InColumns
    /\ parse_score_value(df[idx][col_idx]) = None
    /\ skipped_log' =
         IF updates_count < skip_log_limit /\ ~IsNa(df[idx][col_idx])
         THEN skipped_log + 1 ELSE skipped_log
    /\ col_idx' = col_idx + 1
    /\ UNCHANGED <<df, leaderboards, result_df, idx, updates_count, not_found_log,
                   cpc, new_ws, nan_mode>>
    /\ UNCHANGED <<leaderboard_df, our_score, ppc, percentile, direction, parseVars, aggVars>>

\* lines 181-185: the cell parses and gets a percentile
UpdateCell ==
    /\ InColumns
    /\ parse_score_value(df[idx][col_idx]) # None
    /\ LET pct == calculate_percentile(parse_score_value(df[idx][col_idx]),
                                       RowBoard, nan_mode)
       IN  /\ pct.ok
           /\ result_df' = [result_df EXCEPT ![idx][col_idx] = IntCell(pct.v)]
    /\ updates_count' = updates_count + 1
    /\ col_idx' = col_idx + 1
    /\ UNCHANGED <<df, leaderboards, idx, not_found_log, skipped_log, cpc, new_ws,
                   nan_mode>>
    /\ UNCHANGED <<leaderboard_df, our_score, ppc, percentile, direction, parseVars, aggVars>>

\* lines 181-183: the cell parses and calculate_percentile returns None
KeepCell ==
    /\ InColumns
    /\ parse_score_value(df[idx][col_idx]) # None
    /\ ~calculate_percentile(parse_score_value(df[idx][col_idx]), RowBoard, nan_mode).ok
    /\ col_idx' = col_idx + 1
    /\ UNCHANGED <<df, leaderboards, result_df, idx, updates_count, not_found_log,
                   skipped_log, cpc, new_ws, nan_mode>>
    /\ UNCHANGED <<leaderboard_df, our_score, ppc, percentile, direction, parseVars, aggVars>>

\* the loop of line 164 ends; the next row
LeaveRow ==
    /\ cpc = "cols"
    /\ ~InColumns
    /\ idx' = idx + 1
    /\ cpc' = "rows"
    /\ UNCHANGED <<df, leaderboards, result_df, col_idx, updates_count,
                   not_found_log, skipped_log, new_ws, nan_mode>>
    /\ UNCHANGED <<leaderboard_df, our_score, ppc, percentile, direction, parseVars, aggVars>>

\* the loop of line 137 ends
EndOfRows ==
    /\ cpc = "rows"
    /\ idx >= NumRows(df)
    /\ cpc' = "save"
    /\ UNCHANGED <<df, leaderboards, result_df, idx, col_idx, updates_count,
                   not_found_log, skipped_log, new_ws, nan_mode>>
    /\ UNCHANGED <<leaderboard_df, our_score, ppc, percentile, direction, parseVars, aggVars>>

\* lines 197-213: the two header rows from the original sheet, the data rows
\* from result_df
Save ==
    /\ cpc = "save"
    /\ new_ws' = [r \in DOMAIN result_df |->
                    IF r < first_data_row THEN df[r] ELSE result_df[r]]
    /\ cpc' = "done"
    /\ UNCHANGED <<df, leaderboards, result_df, idx, col_idx, updates_count,
                   not_found_log, skipped_log, nan_mode>>
    /\ UNCHANGED <<leaderboard_df, our_score, ppc, percentile, direction, parseVars, aggVars>>

\* --- the sheets and the leaderboard files of the model ---

Name_c1 == <<"c", "1">>
Name_date == <<"2", "0", "2", "4", "-", "0", "5", "-", "0", "1">>
Name_zz == <<"z", "z">>
Name_nr == <<"n", "r">>

FileRow(rank, score) == [Rank |-> rank, rank_na |-> FALSE, Score |-> score]

\* c1: ten rows of score 3 then one of score 1 (higher is better);
\* 2024-05-01: scores 1, 2 in rank order, a row without rank and a row
\* whose score is not numeric (lower is better); zz: no numeric score;
\* nr: no Rank column
CsvFiles ==
    { [name |-> Name_c1, has_rank |-> TRUE, has_score |-> TRUE,
       rows |-> [i \in 1..11 |-> FileRow(12 - i, IntF(IF i = 1 THEN 1 ELSE 3))]],
      [name |-> Name_date, has_rank |-> TRUE, has_score |-> TRUE,
       rows |-> << FileRow(1, IntF(1)),
                   [Rank |-> 0, rank_na |-> TRUE, Score |-> IntF(9)],
                   FileRow(2, IntF(2)), FileRow(3, NaN) >>],
      [name |-> Name_zz, has_rank |-> TRUE, has_score |-> TRUE,
       rows |-> << FileRow(1, NaN) >>],
      [name |-> Name_nr, has_rank |-> FALSE, has_score |-> TRUE,
       rows |-> << FileRow(1, IntF(1)) >>] }

Cell_2 == StrCell(<<"2">>)
Cell_abc == StrCell(<<"a", "b", "c">>)
Cell_nan == StrCell(<<"n", "a", "n">>)
Cell_url == StrCell(<<"w", "w", "w", ".", "5">>)

\* the kinds of data row: the competition cell (blank, a name without a
\* leaderboard, a name with one, a date with one) and the cells from column
\* 5 on, by column index modulo 3
RowKinds ==
    { <<Blank, Cell_abc, Cell_2, Cell_url>>,
      <<StrCell(Name_zz), Cell_abc, Cell_2, Cell_url>>,
      <<StrCell(Name_c1), Cell_abc, Cell_2, Blank>>,
      <<StrCell(Name_c1), Cell_abc, Cell_url, Cell_abc>>,
      <<DateCell(20240501), Blank, Cell_nan, IntCell(7)>> }

SheetWidths == {11, 14, 90}

HeaderRow(width) == [c \in 0..(width - 1) |-> StrCell(<<"h">>)]

DataRow(width, kind) ==
    [c \in 0..(width - 1) |->
        IF c = competition_col THEN kind[1]
        ELSE IF c < competition_col THEN StrCell(<<"m">>)
        ELSE kind[2 + (c % 3)]]

\* the sheets with n data rows
RECURSIVE Sheets(_, _)
Sheets(width, n) ==
    IF n = 0 THEN {[r \in 0..1 |-> HeaderRow(width)]}
    ELSE { [r \in 0..(n + 1) |-> IF r = n + 1 THEN DataRow(width, kind) ELSE sheet[r]] :
             sheet \in Sheets(width, n - 1), kind \in RowKinds }

InitSweep ==
    /\ df \in UNION {Sheets(w, n) : w \in SheetWidths, n \in 0..MaxDataRows}
    /\ nan_mode \in NanModes
    /\ leaderboards = LoadLeaderboards(CsvFiles)
    /\ result_df = df
    /\ idx = first_data_row
    /\ col_idx = 0
    /\ updates_count = 0
    /\ not_found_log = <<>>
    /\ skipped_log = 0
    /\ cpc = "rows"
    /\ new_ws = <<>>
    /\ PctIdle /\ ParseIdle /\ AggIdle

NextSweep ==
    \/ SkipRowWithoutCompetition
    \/ SkipRowWithoutLeaderboard
    \/ EnterRow
    \/ SkipCell
    \/ UpdateCell
    \/ KeepCell
    \/ LeaveRow
    \/ EndOfRows
    \/ Save

SpecSweep == InitSweep /\ [][NextSweep]_vars

\* ------------------------------------------------------------------------
\* median_type_model_lang.py: read_xlsx
\* ------------------------------------------------------------------------

\* The table is the frame pd.read_excel returns: the first line of the file
\* has become the column names, row 0 holds the language names and the rows
\* from 1 on hold the task type (column 9) and the percentiles.

\* the column of the task type (line 48)
task_type_col == 9

\* the model groups and their column ranges, in the order of the dict
\* (lines 24-31)
model_groups ==
    << [model_name |-> "gpt-oss-120", start_col |-> 11, end_col |-> 24],
       [model_name |-> "gemini-2.5-flash", start_col |-> 24, end_col |-> 37],
       [model_name |-> "gpt-4.1-mini", start_col |-> 37, end_col |-> 50],
       [model_name |-> "qwen2.5-coder", start_col |-> 50, end_col |-> 63],
       [model_name |-> "gpt-4.1-mini + deepseek-r1 (ml-master)",
        start_col |-> 63, end_col |-> 76],
       [model_name |-> "gpt-oss:120b + qwen3-coder:30b (ml-master)",
        start_col |-> 76, end_col |-> 89] >>

\* pd.to_numeric(cell, errors='coerce'): a number is kept, a text is
\* converted and anything that is not a number becomes NaN
ToNumeric(cell) ==
    IF cell.t \in {"int", "float"} THEN cell.f
    ELSE IF cell.t = "str"
         THEN LET r == PyFloat(Strip(cell.s)) IN IF r = ValueError THEN NaN ELSE r
    ELSE NaN

\* languages = df.iloc[0, start_col:end_col].dropna().tolist() (line 38);
\* the slice stops at the last column of the table
languages(table, g) ==
    LET last == Min(g.end_col, NumCols(table))
        NotNa(cell) == ~IsNa(cell)
    IN  SelectSeq([i \in 1..Max(0, last - g.start_col) |->
                      table[0][g.start_col + i - 1]], NotNa)

\* values = pd.to_numeric(df.iloc[1:, col_idx], errors='coerce').dropna()
\* (line 45): a series, each value with the label of the row it comes from
Values(table, c) ==
    LET NotNaN(x) == x.value.k # "nan"
    IN  SelectSeq([r \in 1..(NumRows(table) - 1) |->
                      [row |-> r, value |-> ToNumeric(table[r][c])]], NotNaN)

\* task_types = df.iloc[1:, 9].dropna().tolist() (line 48)
task_types(table) ==
    LET NotNa(cell) == ~IsNa(cell)
    IN  SelectSeq([r \in 1..(NumRows(table) - 1) |-> table[r][task_type_col]],
                  NotNa)

\* the records the loop of lines 50-58 appends for column c of group g;
\* each record also keeps the row label its value has in the series and
\* the column index
ColumnRecords(table, g, c) ==
    LET values == Values(table, c)
        types == task_types(table)
        language == languages(table, g)[c - g.start_col + 1]
    IN  [j \in 1..Min(Len(values), Len(types)) |->
            [language |-> language, model |-> g.model_name,
             task_type |-> types[j], percentile |-> values[j].value,
             row |-> values[j].row, col |-> c]]

\* line 36: the next model group; the loop over its columns starts
EnterGroup ==
    /\ apc = "groups"
    /\ group <= Len(model_groups)
    /\ column' = model_groups[group].start_col
    /\ apc' = "columns"
    /\ UNCHANGED <<xlsx, result_data, group, pctVars, parseVars, sweepVars>>

\* lines 42-58: the column has a language; its values are appended
ReshapeColumn ==
    /\ apc = "columns"
    /\ column < model_groups[group].end_col
    /\ column - model_groups[group].start_col
         < Len(languages(xlsx, model_groups[group]))
    /\ result_data' =
         result_data \o ColumnRecords(xlsx, model_groups[group], column)
    /\ column' = column + 1
    /\ UNCHANGED <<xlsx, group, apc, pctVars, parseVars, sweepVars>>

\* line 42: there is no language left for the column
SkipColumn ==
    /\ apc = "columns"
    /\ column < model_groups[group].end_col
    /\ column - model_groups[group].start_col
         >= Len(languages(xlsx, model_groups[group]))
    /\ column' = column + 1
    /\ UNCHANGED <<xlsx, result_data, group, apc, pctVars, parseVars, sweepVars>>

\* line 41: the columns of the group are exhausted
LeaveGroup ==
    /\ apc = "columns"
    /\ column = model_groups[group].end_col
    /\ group' = group + 1
    /\ apc' = "groups"
    /\ UNCHANGED <<xlsx, result_data, column, pctVars, parseVars, sweepVars>>

\* lines 60-68: the records become the frame that is returned
ReturnFrame ==
    /\ apc = "groups"
    /\ group > Len(model_groups)
    /\ result_data # <<>>
    /\ apc' = "returned"
    /\ UNCHANGED <<xlsx, result_data, group, column, pctVars, parseVars, sweepVars>>

\* line 64: a frame built from no record has no 'language' column
RaiseKeyError ==
    /\ apc = "groups"
    /\ group > Len(model_groups)
    /\ result_data = <<>>
    /\ apc' = "KeyError"
    /\ UNCHANGED <<xlsx, result_data, group, column, pctVars, parseVars, sweepVars>>

\* --- the tables of the model ---

\* the language of column c: the same names recur in every model group
LanguageName(c) == StrCell(<<"l">> \o NatToStr((c - 11) % 13))

\* the language row: every column named, or the first column of every
\* group left blank
LanguageRows == {"named", "gap"}

LanguageRow(width, kind) ==
    [c \in 0..(width - 1) |->
        IF c < 11 THEN Blank
        ELSE IF kind = "gap" /\ (c - 11) % 13 = 0 THEN Blank
        ELSE LanguageName(c)]

\* the kinds of data row: the task type and the cells of the model
\* columns, by column index modulo 2
TaskRowKinds ==
    { <<StrCell(<<"a">>), IntCell(50), IntCell(60)>>,
      <<StrCell(<<"b">>), Blank, IntCell(70)>>,
      <<Blank, IntCell(50), Cell_abc>> }

TaskRow(width, kind) ==
    [c \in 0..(width - 1) |->
        IF c = task_type_col THEN kind[1]
        ELSE IF c < 11 THEN StrCell(<<"m">>)
        ELSE kind[2 + (c % 2)]]

TableWidths == {80, 89}

\* the tables with n data rows
RECURSIVE Tables(_, _, _)
Tables(width, lang, n) ==
    IF n = 0 THEN {[r \in 0..0 |-> LanguageRow(width, lang)]}
    ELSE { [r \in 0..n |-> IF r = n THEN TaskRow(width, kind) ELSE table[r]] :
             table \in Tables(width, lang, n - 1), kind \in TaskRowKinds }

InitAgg ==
    /\ xlsx \in UNION {Tables(w, l, n) :
                         w \in TableWidths, l \in LanguageRows, n \in 0..MaxDataRows}
    /\ result_data = <<>>
    /\ group = 1
    /\ column = 0
    /\ apc = "groups"
    /\ nan_mode = "propagate"
    /\ PctIdle /\ ParseIdle /\ SweepIdle

NextAgg ==
    \/ EnterGroup
    \/ ReshapeColumn
    \/ SkipColumn
    \/ LeaveGroup
    \/ ReturnFrame
    \/ RaiseKeyError

SpecAgg == InitAgg /\ [][NextAgg]_vars

\* ------------------------------------------------------------------------
\* Properties of calculate_percentile (checked under SpecPct)
\* ------------------------------------------------------------------------

\* the scores of a leaderboard that are numbers
NumericScores(board) == {i \in 1..Len(board) : board[i].Score.k # "nan"}

\* the rows among the k best ranks, and among the k worst ranks
BestRanked(board, k) ==
    {i \in 1..Len(board) :
        Cardinality({o \in 1..Len(board) : board[o].Rank < board[i].Rank}) < k}
WorstRanked(board, k) ==
    {i \in 1..Len(board) :
        Cardinality({o \in 1..Len(board) : board[o].Rank > board[i].Rank}) < k}

RECURSIVE ScoreTotal(_, _)
ScoreTotal(board, rows) ==
    IF rows = {} THEN 0
    ELSE LET i == CHOOSE r \in rows : TRUE
         IN  Whole(board[i].Score) + ScoreTotal(board, rows \ {i})

\* C1: for a leaderboard with at least one numeric score and any numeric
\* score the parser can return (finite, infinite or NaN), the value returned
\* is an integer in 1..100, never None.
C1_PercentileInRange ==
    (/\ ppc = "returned"
     /\ NumericScores(leaderboard_df) # {}
     /\ our_score.k \in {"fin", "inf", "nan"})
    => (percentile.ok /\ percentile.v \in 1..100)

\* C2: when every score among the ten best ranks exceeds every score among
\* the ten worst ranks, a score strictly higher than every entry gets 100.
C2_BestScoreGets100 ==
    (/\ ppc = "returned"
     /\ leaderboard_df # <<>>
     /\ \A i \in BestRanked(leaderboard_df, 10), j \in WorstRanked(leaderboard_df, 10) :
            FloatLess(leaderboard_df[j].Score, leaderboard_df[i].Score)
     /\ \A i \in 1..Len(leaderboard_df) : FloatLess(leaderboard_df[i].Score, our_score))
    => percentile = Percentile(100)

\* C7: for a finite score (ties included) the value returned is the
\* reference: with P the percentage of leaderboard scores <= the score,
\* max(0, round(P - 1)) when higher is better, round(100 - P) when lower is
\* better, rounded half to even and clamped into 1..100.
C7_AtOrBelowReference ==
    (/\ ppc = "returned"
     /\ NumericScores(leaderboard_df) # {}
     /\ IsFinite(our_score))
    => LET n == Cardinality(NumericScores(leaderboard_df))
           atOrBelow == Cardinality({i \in NumericScores(leaderboard_df) :
                                        FloatLeq(leaderboard_df[i].Score, our_score)})
       IN  percentile =
             Percentile(IF direction = "higher"
                        THEN Clamp(Max(0, RoundHalfEven(100 * atOrBelow - n, n)))
                        ELSE Clamp(RoundHalfEven(100 * n - 100 * atOrBelow, n)))

\* C8: the direction is decided by the leaderboard alone: higher-is-better
\* exactly when the mean score of the min(10, n) best-ranked rows is
\* strictly greater than the mean score of the min(10, n) worst-ranked
\* rows, lower-is-better otherwise (so for every leaderboard of at most 10
\* rows), and higher-is-better by default when a group has no score.
C8_DirectionRule ==
    direction # "unset" =>
        LET top == BestRanked(leaderboard_df, 10) \cap NumericScores(leaderboard_df)
            bottom == WorstRanked(leaderboard_df, 10) \cap NumericScores(leaderboard_df)
        IN  /\ direction =
                 IF top = {} \/ bottom = {} THEN "higher"
                 ELSE IF ScoreTotal(leaderboard_df, top) * Cardinality(bottom)
                           > ScoreTotal(leaderboard_df, bottom) * Cardinality(top)
                      THEN "higher"
                 ELSE "lower"
            /\ Len(leaderboard_df) <= 10 => direction = "lower"

\* a long leaderboard, its best ranks scoring higher, has been used
C8_Witness ==
    /\ ppc = "returned"
    /\ IsFinite(our_score)
    /\ Len(leaderboard_df) > 10
    /\ direction = "higher"

\* ------------------------------------------------------------------------
\* Properties of parse_score_value (checked under SpecParse)
\* ------------------------------------------------------------------------

IsPadding(text) == \A i \in 1..Len(text) : text[i] \in WhiteSpace

\* text is a null sentinel in some case, with whitespace around it
IsSentinelVariant(text) ==
    \E i \in 1..(Len(text) + 1), j \in 0..Len(text) :
        /\ i <= j + 1
        /\ IsPadding(SubSeq(text, 1, i - 1))
        /\ IsPadding(SubSeq(text, j + 1, Len(text)))
        /\ \E sentinel \in NullSentinels :
              /\ j - i + 1 = Len(sentinel)
              /\ \A n \in 1..Len(sentinel) : LowerChar(text[i + n - 1]) = sentinel[n]

BeginsWithUrl(text) ==
    \/ Len(text) >= 7 /\ SubSeq(text, 1, 7) = <<"h", "t", "t", "p", ":", "/", "/">>
    \/ Len(text) >= 8 /\ SubSeq(text, 1, 8) = <<"h", "t", "t", "p", "s", ":", "/", "/">>
    \/ Len(text) >= 4 /\ SubSeq(text, 1, 4) = <<"w", "w", "w", ".">>

HasComma(text) == \E i \in 1..Len(text) : text[i] = ","

\* the segment of text left of its first comma
LeftOfFirstComma(text) ==
    LET n == CHOOSE i \in 1..Len(text) :
                 text[i] = "," /\ \A j \in 1..(i - 1) : text[j] # ","
    IN  SubSeq(text, 1, n - 1)

\* float(text), None when the conversion fails
FloatOrNone(text) == IF PyFloat(text) = ValueError THEN None ELSE PyFloat(text)

Text_085_Ignore ==
    <<"0", ".", "8", "5", ",", " ", "i", "g", "n", "o", "r", "e", " ", "t", "h", "i", "s">>

\* C5: a null sentinel in any case with any whitespace around it, and a text
\* that begins with http://, https:// or www., give None; a text with a
\* comma gives the conversion of the segment left of the first comma
\* ("0.85, ignore this" gives 0.85); any other text gives the conversion of
\* the whole text, None when it fails ("abc").
C5_ParserRules ==
    (spc = "returned" /\ score_text.t = "str") =>
        LET text == score_text.s
        IN  /\ IsSentinelVariant(text) => parsed = None
            /\ BeginsWithUrl(text) => parsed = None
            /\ HasComma(text) => parsed = FloatOrNone(LeftOfFirstComma(text))
            /\ (~HasComma(text) /\ ~IsSentinelVariant(text) /\ ~BeginsWithUrl(text))
                  => parsed = FloatOrNone(text)
            /\ text = Text_085_Ignore => parsed = Fin(85, -2)
            /\ text = <<"0", ".", "8", "5">> => parsed = Fin(85, -2)
            /\ text = <<"a", "b", "c">> => parsed = None

\* "0.85, ignore this" has been parsed to 0.85
C5_Witness ==
    /\ spc = "returned"
    /\ score_text = StrCell(Text_085_Ignore)
    /\ parsed = Fin(85, -2)

\* C6: the parser returns None or a finite number, never NaN or an infinity.
C6_ParserFinite ==
    spc = "returned" => (parsed = None \/ IsFinite(parsed))

\* ------------------------------------------------------------------------
\* Properties of convert_scores_to_percentiles (checked under SpecSweep)
\* ------------------------------------------------------------------------

DataRows == {r \in DOMAIN df : r >= 2}

\* the data rows whose competition value has no loaded leaderboard
RowsWithoutLeaderboard ==
    {r \in DataRows :
        /\ df[r][4].t # "nan"
        /\ \A name \in DOMAIN leaderboards : CompetitionStr(df[r][4]) # name}

WarningsFor(r) == {i \in 1..Len(not_found_log) : not_found_log[i].row = r}

\* C3 as stated: a row without a leaderboard keeps all its cells, and the
\* run prints exactly one 'not found' warning in total (not one per row).
C3_OneWarningPerRun ==
    (cpc = "done" /\ RowsWithoutLeaderboard # {}) =>
        /\ \A r \in RowsWithoutLeaderboard : result_df[r] = df[r] /\ new_ws[r] = df[r]
        /\ Len(not_found_log) = 1

\* C3 amended: a row without a leaderboard keeps all its cells, and exactly
\* one 'not found' warning is printed for each such row (one per row, not
\* one per column), so the run prints as many as there are such rows.
C3_OneWarningPerRow ==
    cpc = "done" =>
        /\ \A r \in RowsWithoutLeaderboard :
              /\ result_df[r] = df[r] /\ new_ws[r] = df[r]
              /\ Cardinality(WarningsFor(r)) = 1
        /\ Len(not_found_log) = Cardinality(RowsWithoutLeaderboard)

\* a run over two rows without a leaderboard has ended
C3_Witness ==
    /\ cpc = "done"
    /\ Cardinality(RowsWithoutLeaderboard) = 2
    /\ Len(not_found_log) = 2
    /\ NumCols(df) > 11

\* cell (r, c) of the table was replaced: the cell read parses, and the
\* percentile of its value against the leaderboard of its row is what the
\* table holds
ReplacedByPercentile(table, r, c) ==
    /\ r \notin RowsWithoutLeaderboard /\ df[r][4].t # "nan"
    /\ LET score == parse_score_value(df[r][c])
           pct == calculate_percentile(score, leaderboards[CompetitionStr(df[r][4])].df,
                                       nan_mode)
       IN  score # None /\ pct.ok /\ table[r][c] = IntCell(pct.v)

C10_SkipLogBounded == skipped_log <= 5

\* ------------------------------------------------------------------------
\* Properties of read_xlsx (checked under SpecAgg)
\* ------------------------------------------------------------------------

\* C9: every record appended by read_xlsx carries the task type found in
\* the row its percentile was read from and the language found in the
\* language row of its column, also when score cells, task types or
\* language names are blank
C9_LabelsAligned ==
    \A k \in 1..Len(result_data) :
        /\ result_data[k].task_type = xlsx[result_data[k].row][task_type_col]
        /\ result_data[k].language = xlsx[0][result_data[k].col]

====
